---- MODULE Spec2Model ----
(***************************************************************************)
(* A model of the input routing, IME coordination, view transform and      *)
(* caret-detail pass of example/example_testbed.c.                          *)
(*                                                                          *)
(* The editor (skb_editor), the view helpers (view_drag_start,              *)
(* view_drag_move, view_scroll_zoom) and the IME service (ime.h) are called *)
(* by the testbed but implemented elsewhere; they are modelled here from    *)
(* their documented contract.  Floating point values are modelled as exact  *)
(* rationals <<numerator, denominator>>.                                    *)
(***************************************************************************)
EXTENDS Integers, Sequences, FiniteSets, TLC

VARIABLES
    pc,          \* position in the life cycle of the testbed context
    allow_char,  \* ctx->allow_char
    drag_view,   \* ctx->drag_view
    drag_text,   \* ctx->drag_text
    view,        \* ctx->view
    editor_ptr,  \* ctx->editor: "valid" or "NULL"
    ed,          \* the state of the editor object behind ctx->editor
    ime,         \* the IME service: handler registration, composition, rect
    last,        \* the handler that ran last
    nchar,       \* the last nchar events were character events that
                 \* directly followed a key-down (counted up to 2)
    calls,       \* the calls the last handler made to its collaborators
    nevents,     \* input events handled so far
    show_caret_details, \* ctx->show_caret_details
    frame_pc,    \* "idle", or "line" inside the caret loop of a line
    left_text_offset, \* the loop's left_text_offset
    line_n,      \* boundaries the caret iterator has yielded on this line
    boundary,    \* the boundary the iterator yielded last
    markers,     \* the markers drawn for that boundary
    res          \* the life of the resources testbed_create acquires

vars == <<pc, allow_char, drag_view, drag_text, view, editor_ptr, ed, ime,
          last, nchar, calls, nevents, show_caret_details, frame_pc,
          left_text_offset, line_n, boundary, markers, res>>

routerVars == <<pc, allow_char, drag_view, drag_text, view, editor_ptr, ed,
                ime, last, nchar, calls, nevents, show_caret_details, res>>
frameVars == <<frame_pc, left_text_offset, line_n, boundary, markers>>

-----------------------------------------------------------------------------
(* Bounds of the model. *)

MaxEvents == 3      \* most input events delivered in one run
MaxBoundaries == 2  \* most caret boundaries on the line of one frame

-----------------------------------------------------------------------------
(* Exact rational arithmetic for the float fields. *)

Abs(n) == IF n < 0 THEN -n ELSE n

RECURSIVE GCD(_, _)
GCD(a, b) == IF b = 0 THEN a ELSE GCD(b, a % b)

RNorm(n, d) ==
    LET s == IF d < 0 THEN -1 ELSE 1
        g == GCD(Abs(n), Abs(d))
    IN  <<(s * n) \div g, (s * d) \div g>>

R(n) == <<n, 1>>
RAdd(a, b) == RNorm(a[1] * b[2] + b[1] * a[2], a[2] * b[2])
RSub(a, b) == RNorm(a[1] * b[2] - b[1] * a[2], a[2] * b[2])
RMul(a, b) == RNorm(a[1] * b[1], a[2] * b[2])
RDiv(a, b) == RNorm(a[1] * b[2], a[2] * b[1])
RLess(a, b) == a[1] * b[2] < b[1] * a[2]

\* (int32_t)f: truncation toward zero.
ToInt32(a) == IF a[1] >= 0 THEN a[1] \div a[2] ELSE -((-a[1]) \div a[2])

-----------------------------------------------------------------------------
(* The view: pan and zoom. *)

ViewInit == [cx |-> R(400), cy |-> R(120), scale |-> R(1),
             drag_x |-> R(0), drag_y |-> R(0)]

ViewZero == [cx |-> R(0), cy |-> R(0), scale |-> R(0),
             drag_x |-> R(0), drag_y |-> R(0)]

\* zoom_speed = 0.2f
ZoomSpeed == <<1, 5>>

view_drag_start(v, mx, my) == [v EXCEPT !.drag_x = mx, !.drag_y = my]

view_drag_move(v, mx, my) ==
    [v EXCEPT !.cx = RAdd(v.cx, RSub(mx, v.drag_x)),
              !.cy = RAdd(v.cy, RSub(my, v.drag_y)),
              !.drag_x = mx, !.drag_y = my]

view_scroll_zoom(v, mx, my, delta) ==
    LET new_scale == RAdd(v.scale, delta)
        ratio == RDiv(new_scale, v.scale)
    IN  [v EXCEPT !.scale = new_scale,
                  !.cx = RSub(mx, RMul(RSub(mx, v.cx), ratio)),
                  !.cy = RSub(my, RMul(RSub(my, v.cy), ratio))]

transform_mouse_pos(v, mx, my) ==
    [x |-> RDiv(RSub(mx, v.cx), v.scale), y |-> RDiv(RSub(my, v.cy), v.scale)]

-----------------------------------------------------------------------------
(* The editor: text, selection and composition.  Codepoints are numbers;   *)
(* offsets count codepoints; the text is laid out on one line with a fixed *)
(* advance per codepoint.                                                   *)

FontSize == 92
Advance == FontSize \div 2
LineHeight == (FontSize * 13) \div 10

TabCodepoint == 9
NewlineCodepoint == 10
\* The text the editor is given at creation, cut down to one letter.
InitialText == <<97>>

EdInit == [text |-> InitialText, sel_start |-> 0, sel_end |-> 0,
           comp |-> <<>>, comp_cursor |-> 0]

\* What stands for the editor state once the editor is destroyed.
EdNone == [text |-> <<>>, sel_start |-> 0, sel_end |-> 0,
           comp |-> <<>>, comp_cursor |-> 0]

Min(a, b) == IF a < b THEN a ELSE b
Max(a, b) == IF a < b THEN b ELSE a

SelLo(e) == Min(e.sel_start, e.sel_end)
SelHi(e) == Max(e.sel_start, e.sel_end)

skb_editor_get_selection_count(e) == SelHi(e) - SelLo(e)

skb_editor_get_selection_text(e) == SubSeq(e.text, SelLo(e) + 1, SelHi(e))

EdReplaceSelection(e, t) ==
    [e EXCEPT !.text = SubSeq(e.text, 1, SelLo(e)) \o t
                       \o SubSeq(e.text, SelHi(e) + 1, Len(e.text)),
              !.sel_start = SelLo(e) + Len(t),
              !.sel_end = SelLo(e) + Len(t)]

skb_editor_insert_codepoint(e, cp) == EdReplaceSelection(e, <<cp>>)

\* clip.avail = FALSE stands for a NULL clipboard string.
skb_editor_paste(e, clip) ==
    IF clip.avail /\ clip.text # <<>> THEN EdReplaceSelection(e, clip.text) ELSE e

skb_editor_cut(e) ==
    IF skb_editor_get_selection_count(e) > 0 THEN EdReplaceSelection(e, <<>>) ELSE e

skb_editor_select_all(e) == [e EXCEPT !.sel_start = 0, !.sel_end = Len(e.text)]

skb_editor_select_none(e) == [e EXCEPT !.sel_start = e.sel_end]

EdMoveTo(e, off, mods) ==
    IF "SHIFT" \in mods THEN [e EXCEPT !.sel_end = off]
    ELSE [e EXCEPT !.sel_start = off, !.sel_end = off]

skb_editor_process_key_pressed(e, key, mods) ==
    LET sel == skb_editor_get_selection_count(e) > 0
        n == Len(e.text)
    IN  CASE key = "LEFT" ->
               IF sel /\ "SHIFT" \notin mods THEN EdMoveTo(e, SelLo(e), mods)
               ELSE EdMoveTo(e, Max(e.sel_end - 1, 0), mods)
          [] key = "RIGHT" ->
               IF sel /\ "SHIFT" \notin mods THEN EdMoveTo(e, SelHi(e), mods)
               ELSE EdMoveTo(e, Min(e.sel_end + 1, n), mods)
          [] key \in {"UP", "HOME"} -> EdMoveTo(e, 0, mods)
          [] key \in {"DOWN", "END"} -> EdMoveTo(e, n, mods)
          [] key = "BACKSPACE" ->
               IF sel THEN EdReplaceSelection(e, <<>>)
               ELSE IF e.sel_end > 0
                    THEN EdReplaceSelection(
                             [e EXCEPT !.sel_start = e.sel_end - 1], <<>>)
                    ELSE e
          [] key = "DELETE" ->
               IF sel THEN EdReplaceSelection(e, <<>>)
               ELSE IF e.sel_end < n
                    THEN EdReplaceSelection(
                             [e EXCEPT !.sel_start = e.sel_end + 1], <<>>)
                    ELSE e
          [] key = "ENTER" -> EdReplaceSelection(e, <<NewlineCodepoint>>)
          [] OTHER -> e

\* The caret boundary nearest to the text-space x.
EdHitTest(e, x) ==
    Cardinality({i \in 1..Len(e.text) :
                    ~RLess(x, <<(2 * i - 1) * Advance, 2>>)})

skb_editor_process_mouse_click(e, x, y, mods) == EdMoveTo(e, EdHitTest(e, x), mods)

skb_editor_process_mouse_drag(e, x, y) == [e EXCEPT !.sel_end = EdHitTest(e, x)]

skb_editor_set_composition(e, text, cursor) ==
    [e EXCEPT !.comp = text, !.comp_cursor = cursor]

skb_editor_clear_composition(e) == [e EXCEPT !.comp = <<>>, !.comp_cursor = 0]

skb_editor_commit_composition(e, text) ==
    EdReplaceSelection(skb_editor_clear_composition(e), text)

skb_editor_get_visual_caret(e, offset) ==
    [x |-> R(Advance * (offset + e.comp_cursor)), y |-> R(0),
     width |-> R(0), height |-> R(LineHeight)]

-----------------------------------------------------------------------------
(* The testbed's handlers, as functions of the context state S:            *)
(* [allow_char, drag_view, drag_text, view, ed, ime, show_caret_details,   *)
(* calls].  Every call to a collaborator is appended to S.calls as         *)
(* <<name, arguments...>>.                                                 *)

Call(S, c) == [S EXCEPT !.calls = Append(@, c)]

\* Lines 53-54: the screen position of a text-space point, before the cast.
view_to_screen_unscaled(v, t) == [x |-> RAdd(v.cx, t.x), y |-> RAdd(v.cy, t.y)]

view_to_screen(v, t) ==
    [x |-> RAdd(v.cx, RMul(t.x, v.scale)), y |-> RAdd(v.cy, RMul(t.y, v.scale))]

\* The rectangle update_ime_rect computes from a view and an editor.
InputRect(v, e) ==
    LET caret_pos == skb_editor_get_visual_caret(e, e.sel_end)
        screen == view_to_screen(v, caret_pos)
    IN  <<ToInt32(screen.x), ToInt32(screen.y),
          ToInt32(RMul(caret_pos.width, v.scale)),
          ToInt32(RMul(caret_pos.height, v.scale))>>

ime_set_input_rect(S, rect) ==
    Call([S EXCEPT !.ime.rect = rect], <<"ime_set_input_rect", rect>>)

update_ime_rect(S) == ime_set_input_rect(S, InputRect(S.view, S.ed))

ImeEvents ==
    [type : {"COMPOSITION"}, text : {<<97>>}, cursor : {0, 1}]
    \cup [type : {"COMMIT"}, text : {<<97>>}, cursor : {0}]
    \cup [type : {"CANCEL"}, text : {<<>>}, cursor : {0}]

ime_handler_route(S, ev) ==
    IF ev.type = "COMPOSITION" THEN
        Call([S EXCEPT !.ed = skb_editor_set_composition(S.ed, ev.text, ev.cursor)],
             <<"skb_editor_set_composition_utf32", ev.text, ev.cursor>>)
    ELSE IF ev.type = "COMMIT" THEN
        Call([S EXCEPT !.ed = skb_editor_commit_composition(S.ed, ev.text)],
             <<"skb_editor_commit_composition_utf32", ev.text>>)
    ELSE IF ev.type = "CANCEL" THEN
        Call([S EXCEPT !.ed = skb_editor_clear_composition(S.ed)],
             <<"skb_editor_clear_composition">>)
    ELSE S

ime_handler_commit_as_composition(S, ev) ==
    IF ev.type \in {"COMPOSITION", "COMMIT"} THEN
        update_ime_rect(
            Call([S EXCEPT !.ed = skb_editor_set_composition(S.ed, ev.text, ev.cursor)],
                 <<"skb_editor_set_composition_utf32", ev.text, ev.cursor>>))
    ELSE update_ime_rect(ime_handler_route(S, ev))

ime_handler(S, ev) == update_ime_rect(ime_handler_route(S, ev))

\* ime_cancel(): the service drops the composition in flight and tells the
\* registered handler so.
ime_cancel(S) ==
    LET T == Call([S EXCEPT !.ime.composing = FALSE], <<"ime_cancel">>)
    IN  IF S.ime.composing /\ S.ime.handler
        THEN ime_handler(T, [type |-> "CANCEL", text |-> <<>>, cursor |-> 0])
        ELSE T

-----------------------------------------------------------------------------
(* testbed_on_key *)

Keys == {"V", "Z", "A", "X", "C", "TAB", "ESCAPE", "LEFT", "RIGHT", "UP",
         "DOWN", "HOME", "END", "BACKSPACE", "DELETE", "ENTER", "B"}
CaretKeys == {"LEFT", "RIGHT", "UP", "DOWN", "HOME", "END", "BACKSPACE",
              "DELETE", "ENTER"}
KeyActions == {"PRESS", "REPEAT", "RELEASE"}
Mods == SUBSET {"SHIFT", "CONTROL"}

\* What glfwGetClipboardString can return: NULL, "" or a text.
ClipboardReads == {[avail |-> FALSE, text |-> <<>>],
                   [avail |-> TRUE, text |-> <<>>],
                   [avail |-> TRUE, text |-> <<97>>]}

EditMods(mods) == mods \cap {"SHIFT", "CONTROL"}

KeyPaste(S, clip) ==
    LET S1 == Call(S, <<"glfwGetClipboardString", clip>>)
        S2 == Call([S1 EXCEPT !.ed = skb_editor_paste(S1.ed, clip)],
                   <<"skb_editor_paste_utf8", clip>>)
    IN  [S2 EXCEPT !.allow_char = FALSE]

KeyDownCommands_undo_with_shift(S, key, mods, clip) ==
    LET S1 == [S EXCEPT !.allow_char = TRUE]
        S2 == IF key = "V" /\ "CONTROL" \in mods THEN KeyPaste(S1, clip) ELSE S1
        S3 == IF key = "Z" /\ "CONTROL" \in mods
              THEN Call(S2, <<"skb_editor_undo">>) ELSE S2
        S4 == IF key = "Z" /\ "CONTROL" \in mods /\ "SHIFT" \in mods
              THEN Call(S3, <<"skb_editor_redo">>) ELSE S3
    IN  IF key \in CaretKeys
        THEN Call([S4 EXCEPT !.ed = skb_editor_process_key_pressed(
                                        S4.ed, key, EditMods(mods))],
                  <<"skb_editor_process_key_pressed", key>>)
        ELSE S4

\* Lines 269-297: the commands of the key-down block.
KeyDownCommands(S, key, mods, clip) ==
    LET S1 == [S EXCEPT !.allow_char = TRUE]
        S2 == IF key = "V" /\ "CONTROL" \in mods THEN KeyPaste(S1, clip) ELSE S1
        S3 == IF key = "Z" /\ "CONTROL" \in mods /\ "SHIFT" \notin mods
              THEN Call(S2, <<"skb_editor_undo">>) ELSE S2
        S4 == IF key = "Z" /\ "CONTROL" \in mods /\ "SHIFT" \in mods
              THEN Call(S3, <<"skb_editor_redo">>) ELSE S3
    IN  IF key \in CaretKeys
        THEN Call([S4 EXCEPT !.ed = skb_editor_process_key_pressed(
                                        S4.ed, key, EditMods(mods))],
                  <<"skb_editor_process_key_pressed", key>>)
        ELSE S4

KeyDownBlock_no_rect(S, key, mods, clip) == KeyDownCommands(S, key, mods, clip)

\* Lines 268-300: if (action == GLFW_PRESS || action == GLFW_REPEAT) { ... }
KeyDownBlock(S, key, mods, clip) ==
    update_ime_rect(KeyDownCommands(S, key, mods, clip))

KeyCopyToClipboard_skip_empty(S) ==
    LET text == skb_editor_get_selection_text(S.ed)
        text_len == Len(text)
        S1 == Call(S, <<"SKB_TEMP_ALLOC", text_len + 1>>)
        S2 == Call(S1, <<"store_nul", text_len>>)
        S3 == Call(S2, <<"glfwSetClipboardString", text>>)
    IN  IF text_len = 0 THEN S1 ELSE Call(S3, <<"SKB_TEMP_FREE">>)

KeyCopyToClipboard_deselects(S) ==
    LET text == skb_editor_get_selection_text(S.ed)
        text_len == Len(text)
        S1 == Call(S, <<"SKB_TEMP_ALLOC", text_len + 1>>)
        S2 == Call(S1, <<"store_nul", text_len>>)
        S3 == Call(S2, <<"glfwSetClipboardString", text>>)
        S4 == Call(S3, <<"SKB_TEMP_FREE">>)
    IN  Call([S4 EXCEPT !.ed = skb_editor_select_none(S4.ed)],
             <<"skb_editor_select_none">>)

\* Cut and copy: the selection text goes through a temporary buffer.
KeyCopyToClipboard(S) ==
    LET text == skb_editor_get_selection_text(S.ed)
        text_len == Len(text)
        S1 == Call(S, <<"SKB_TEMP_ALLOC", text_len + 1>>)
        S2 == Call(S1, <<"store_nul", text_len>>)
        S3 == Call(S2, <<"glfwSetClipboardString", text>>)
    IN  Call(S3, <<"SKB_TEMP_FREE">>)

KeyEscape_always_closes(S) ==
    Call(IF skb_editor_get_selection_count(S.ed) > 0
         THEN Call([S EXCEPT !.ed = skb_editor_select_none(S.ed)],
                   <<"skb_editor_select_none">>)
         ELSE S,
         <<"glfwSetWindowShouldClose">>)

KeyEscape(S) ==
    IF skb_editor_get_selection_count(S.ed) > 0
    THEN Call([S EXCEPT !.ed = skb_editor_select_none(S.ed)],
              <<"skb_editor_select_none">>)
    ELSE Call(S, <<"glfwSetWindowShouldClose">>)

KeyPressBlock_cut_first(S, key, mods) ==
    LET S1 == [S EXCEPT !.allow_char = TRUE]
        S2 == IF key = "A" /\ "CONTROL" \in mods
              THEN [Call([S1 EXCEPT !.ed = skb_editor_select_all(S1.ed)],
                         <<"skb_editor_select_all">>)
                    EXCEPT !.allow_char = FALSE]
              ELSE S1
        S3 == IF key = "TAB"
              THEN Call([S2 EXCEPT !.ed = skb_editor_insert_codepoint(
                                              S2.ed, TabCodepoint)],
                        <<"skb_editor_insert_codepoint", TabCodepoint>>)
              ELSE S2
        S4 == IF key = "ESCAPE" THEN KeyEscape(S3) ELSE S3
        S5 == IF key = "X" /\ "CONTROL" \in mods
              THEN LET T == Call([S4 EXCEPT !.ed = skb_editor_cut(S4.ed)],
                                 <<"skb_editor_cut">>)
                   IN  [KeyCopyToClipboard(T) EXCEPT !.allow_char = FALSE]
              ELSE S4
        S6 == IF key = "C" /\ "CONTROL" \in mods
              THEN [KeyCopyToClipboard(S5) EXCEPT !.allow_char = FALSE]
              ELSE S5
    IN  update_ime_rect(S6)

\* Lines 301-343: if (action == GLFW_PRESS) { ... update_ime_rect(ctx);
KeyPressBlock(S, key, mods) ==
    LET S1 == [S EXCEPT !.allow_char = TRUE]
        S2 == IF key = "A" /\ "CONTROL" \in mods
              THEN [Call([S1 EXCEPT !.ed = skb_editor_select_all(S1.ed)],
                         <<"skb_editor_select_all">>)
                    EXCEPT !.allow_char = FALSE]
              ELSE S1
        S3 == IF key = "TAB"
              THEN Call([S2 EXCEPT !.ed = skb_editor_insert_codepoint(
                                              S2.ed, TabCodepoint)],
                        <<"skb_editor_insert_codepoint", TabCodepoint>>)
              ELSE S2
        S4 == IF key = "ESCAPE" THEN KeyEscape(S3) ELSE S3
        S5 == IF key = "X" /\ "CONTROL" \in mods
              THEN LET T == KeyCopyToClipboard(S4)
                   IN  [Call([T EXCEPT !.ed = skb_editor_cut(T.ed)],
                             <<"skb_editor_cut">>)
                        EXCEPT !.allow_char = FALSE]
              ELSE S4
        S6 == IF key = "C" /\ "CONTROL" \in mods
              THEN [KeyCopyToClipboard(S5) EXCEPT !.allow_char = FALSE]
              ELSE S5
    IN  update_ime_rect(S6)

KeyToggles_inserts_letter(S, key) ==
    LET T == IF key = "F8"
             THEN [S EXCEPT !.show_caret_details = ~S.show_caret_details]
             ELSE S
    IN  IF key \in {"V", "Z", "A", "X", "C", "B"}
        THEN Call([T EXCEPT !.ed = skb_editor_insert_codepoint(T.ed, 97)],
                  <<"skb_editor_insert_codepoint", 97>>)
        ELSE T

\* Lines 345-358: the debug toggles; the model keeps F8's flag only.
KeyToggles(S, key) ==
    IF key = "F8" THEN [S EXCEPT !.show_caret_details = ~S.show_caret_details]
    ELSE S

testbed_on_key_release_clears(S, key, action, mods, clip) ==
    LET S1 == IF action \in {"PRESS", "REPEAT"}
              THEN KeyDownBlock(S, key, mods, clip)
              ELSE [S EXCEPT !.allow_char = FALSE]
    IN  IF action = "PRESS"
        THEN KeyToggles(KeyPressBlock(S1, key, mods), key) ELSE S1

testbed_on_key_press_block_on_repeat(S, key, action, mods, clip) ==
    LET S1 == IF action \in {"PRESS", "REPEAT"}
              THEN KeyDownBlock(S, key, mods, clip) ELSE S
    IN  IF action \in {"PRESS", "REPEAT"}
        THEN KeyToggles(KeyPressBlock(S1, key, mods), key) ELSE S1

testbed_on_key(S, key, action, mods, clip) ==
    LET S1 == IF action \in {"PRESS", "REPEAT"}
              THEN KeyDownBlock(S, key, mods, clip) ELSE S
    IN  IF action = "PRESS"
        THEN KeyToggles(KeyPressBlock(S1, key, mods), key) ELSE S1

-----------------------------------------------------------------------------
(* testbed_on_char *)

testbed_on_char_ungated(S, codepoint) ==
    Call([S EXCEPT !.ed = skb_editor_insert_codepoint(S.ed, codepoint)],
         <<"skb_editor_insert_codepoint", codepoint>>)

testbed_on_char_rearming(S, codepoint) ==
    IF S.allow_char
    THEN Call([S EXCEPT !.ed = skb_editor_insert_codepoint(S.ed, codepoint)],
              <<"skb_editor_insert_codepoint", codepoint>>)
    ELSE [S EXCEPT !.allow_char = TRUE]

testbed_on_char(S, codepoint) ==
    IF S.allow_char
    THEN Call([S EXCEPT !.ed = skb_editor_insert_codepoint(S.ed, codepoint)],
              <<"skb_editor_insert_codepoint", codepoint>>)
    ELSE S

-----------------------------------------------------------------------------
(* Mouse handlers *)

MouseButtons == {"LEFT", "RIGHT", "MIDDLE"}
MouseActions == {"PRESS", "RELEASE"}
MousePoints == {<<400, 120>>, <<446, 150>>}
WheelDeltas == {5, -6}

MouseRightButton_release_ends_all(S, mx, my, action) ==
    IF action = "PRESS" /\ ~S.drag_view
    THEN Call([S EXCEPT !.view = view_drag_start(S.view, mx, my),
                        !.drag_view = TRUE],
              <<"view_drag_start", mx, my>>)
    ELSE IF action = "RELEASE"
    THEN [S EXCEPT !.drag_view = FALSE, !.drag_text = FALSE]
    ELSE S

MouseRightButton(S, mx, my, action) ==
    IF action = "PRESS" /\ ~S.drag_view
    THEN Call([S EXCEPT !.view = view_drag_start(S.view, mx, my),
                        !.drag_view = TRUE],
              <<"view_drag_start", mx, my>>)
    ELSE IF action = "RELEASE" /\ S.drag_view
    THEN [S EXCEPT !.drag_view = FALSE]
    ELSE S

MouseLeftButton_unguarded(S, mx, my, action, mods) ==
    IF action = "PRESS"
    THEN LET S1 == ime_cancel(S)
             S2 == [S1 EXCEPT !.drag_text = TRUE]
             pos == transform_mouse_pos(S2.view, mx, my)
         IN  Call([S2 EXCEPT !.ed = skb_editor_process_mouse_click(
                                         S2.ed, pos.x, pos.y, EditMods(mods))],
                  <<"skb_editor_process_mouse_click", pos.x, pos.y>>)
    ELSE IF action = "RELEASE" /\ S.drag_text
    THEN [S EXCEPT !.drag_text = FALSE]
    ELSE S

MouseLeftButton(S, mx, my, action, mods) ==
    IF action = "PRESS" /\ ~S.drag_text
    THEN LET S1 == ime_cancel(S)
             S2 == [S1 EXCEPT !.drag_text = TRUE]
             pos == transform_mouse_pos(S2.view, mx, my)
         IN  Call([S2 EXCEPT !.ed = skb_editor_process_mouse_click(
                                         S2.ed, pos.x, pos.y, EditMods(mods))],
                  <<"skb_editor_process_mouse_click", pos.x, pos.y>>)
    ELSE IF action = "RELEASE" /\ S.drag_text
    THEN [S EXCEPT !.drag_text = FALSE]
    ELSE S

testbed_on_mouse_button(S, mx, my, button, action, mods) ==
    LET S1 == IF button = "RIGHT" THEN MouseRightButton(S, mx, my, action) ELSE S
        S2 == IF button = "LEFT"
              THEN MouseLeftButton(S1, mx, my, action, mods) ELSE S1
    IN  update_ime_rect(S2)

testbed_on_mouse_move_unguarded_pan(S, mx, my) ==
    LET S1 == update_ime_rect(
                  Call([S EXCEPT !.view = view_drag_move(S.view, mx, my)],
                       <<"view_drag_move", mx, my>>))
    IN  IF S1.drag_text
        THEN LET pos == transform_mouse_pos(S1.view, mx, my)
             IN  update_ime_rect(
                     Call([S1 EXCEPT !.ed = skb_editor_process_mouse_drag(
                                                S1.ed, pos.x, pos.y)],
                          <<"skb_editor_process_mouse_drag", pos.x, pos.y>>))
        ELSE S1

testbed_on_mouse_move(S, mx, my) ==
    LET S1 == IF S.drag_view
              THEN update_ime_rect(
                       Call([S EXCEPT !.view = view_drag_move(S.view, mx, my)],
                            <<"view_drag_move", mx, my>>))
              ELSE S
    IN  IF S1.drag_text
        THEN LET pos == transform_mouse_pos(S1.view, mx, my)
             IN  update_ime_rect(
                     Call([S1 EXCEPT !.ed = skb_editor_process_mouse_drag(
                                                S1.ed, pos.x, pos.y)],
                          <<"skb_editor_process_mouse_drag", pos.x, pos.y>>))
        ELSE S1

testbed_on_mouse_scroll_swapped(S, mx, my, delta_x, delta_y, mods) ==
    LET delta == RMul(delta_y, ZoomSpeed)
    IN  Call([S EXCEPT !.view = view_scroll_zoom(S.view, my, mx, delta)],
             <<"view_scroll_zoom", my, mx, delta>>)

testbed_on_mouse_scroll_ends_pan(S, mx, my, delta_x, delta_y, mods) ==
    LET delta == RMul(delta_y, ZoomSpeed)
    IN  Call([S EXCEPT !.view = view_scroll_zoom(S.view, mx, my, delta),
                       !.drag_view = FALSE],
             <<"view_scroll_zoom", mx, my, delta>>)

testbed_on_mouse_scroll_clamped(S, mx, my, delta_x, delta_y, mods) ==
    LET delta == RMul(delta_y, ZoomSpeed)
    IN  IF RLess(R(0), RAdd(S.view.scale, delta))
        THEN Call([S EXCEPT !.view = view_scroll_zoom(S.view, mx, my, delta)],
                  <<"view_scroll_zoom", mx, my, delta>>)
        ELSE S

testbed_on_mouse_scroll(S, mx, my, delta_x, delta_y, mods) ==
    LET delta == RMul(delta_y, ZoomSpeed)
    IN  Call([S EXCEPT !.view = view_scroll_zoom(S.view, mx, my, delta)],
             <<"view_scroll_zoom", mx, my, delta>>)

-----------------------------------------------------------------------------
(* testbed_on_update: the caret-detail pass over one line, lines 662-695.  *)
(* skb_caret_iterator_next yields the boundaries; each is a record         *)
(* [advance, left, right], a side being [direction, affinity, offset].     *)

LabelOverlapAdvance == 40
LabelOverlapOffset == 15

Directions == {"LTR", "RTL"}
skb_is_rtl(direction) == direction = "RTL"

Boundaries ==
    [advance : {39, 40},
     left : [direction : Directions, affinity : {"TRAILING", "LEADING"},
             offset : {0}],
     right : [direction : Directions, affinity : {"TRAILING", "LEADING", "EOL"},
              offset : {1}]]

NoBoundary == [advance |-> 0,
               left |-> [direction |-> "LTR", affinity |-> "NONE", offset |-> 0],
               right |-> [direction |-> "LTR", affinity |-> "NONE", offset |-> 0]]

\* A marker: the triangle (tri_dx is its tip, left or right of the caret
\* line) and the label drawn with it.
Marker(side, tri_dx, pos, label_dy) ==
    [side |-> side, tri_dx |-> tri_dx, affinity |-> pos.affinity,
     offset |-> pos.offset, label_dy |-> label_dy]

CaretMarkers_both_sides(b, lto) ==
    <<Marker("left", -5, b.left, lto), Marker("right", 5, b.right, 0)>>

CaretMarkers_own_advance(b, lto) ==
    LET own == IF b.advance < LabelOverlapAdvance THEN LabelOverlapOffset ELSE 0
    IN  IF b.left.direction # b.right.direction
        THEN <<Marker("left", -5, b.left, own), Marker("right", 5, b.right, 0)>>
        ELSE IF b.right.affinity = "TRAILING"
        THEN <<Marker("right", IF skb_is_rtl(b.right.direction) THEN -5 ELSE 5,
                      b.right, 0)>>
        ELSE <<Marker("left", IF skb_is_rtl(b.left.direction) THEN -5 ELSE 5,
                      b.left, lto)>>

\* Lines 677-693, the drawing: the markers of boundary b when the carried
\* label offset is lto.
CaretMarkers(b, lto) ==
    IF b.left.direction # b.right.direction
    THEN <<Marker("left", -5, b.left, lto), Marker("right", 5, b.right, 0)>>
    ELSE IF b.right.affinity = "TRAILING"
    THEN <<Marker("right", IF skb_is_rtl(b.right.direction) THEN -5 ELSE 5,
                  b.right, 0)>>
    ELSE <<Marker("left", IF skb_is_rtl(b.left.direction) THEN -5 ELSE 5,
                  b.left, lto)>>

CarriedOffset_never_reset(b) ==
    IF b.advance < LabelOverlapAdvance THEN LabelOverlapOffset ELSE 0

\* Lines 682, 687, 691: the label offset carried to the next boundary.
CarriedOffset(b) ==
    IF b.left.direction # b.right.direction \/ b.right.affinity = "TRAILING"
    THEN IF b.advance < LabelOverlapAdvance THEN LabelOverlapOffset ELSE 0
    ELSE 0

\* Line 662-670: the pass starts on a line, if the caret details are shown.
FrameBeginLine ==
    /\ pc = "run"
    /\ frame_pc = "idle"
    /\ show_caret_details
    /\ frame_pc' = "line"
    /\ left_text_offset' = 0
    /\ line_n' = 0
    /\ boundary' = NoBoundary
    /\ markers' = <<>>
    /\ UNCHANGED routerVars

\* One turn of the while loop: the iterator yields b.
FrameNextBoundary(b) ==
    /\ frame_pc = "line"
    /\ line_n < MaxBoundaries
    /\ line_n' = line_n + 1
    /\ boundary' = b
    /\ markers' = CaretMarkers(b, left_text_offset)
    /\ left_text_offset' = CarriedOffset(b)
    /\ UNCHANGED <<frame_pc, routerVars>>

\* skb_caret_iterator_next returns false: the line is done.
FrameEndLine ==
    /\ frame_pc = "line"
    /\ frame_pc' = "idle"
    /\ UNCHANGED <<left_text_offset, line_n, boundary, markers, routerVars>>

-----------------------------------------------------------------------------
(* The state machine: one action per handler. *)

Cur == [allow_char |-> allow_char, drag_view |-> drag_view,
        drag_text |-> drag_text, view |-> view, ed |-> ed, ime |-> ime,
        show_caret_details |-> show_caret_details, calls |-> <<>>]

\* The fields of the context after a handler that left it in state S.
Handled(S) ==
    /\ nevents < MaxEvents
    /\ nevents' = nevents + 1
    /\ allow_char' = S.allow_char
    /\ drag_view' = S.drag_view
    /\ drag_text' = S.drag_text
    /\ view' = S.view
    /\ ed' = S.ed
    /\ ime' = S.ime
    /\ calls' = S.calls
    /\ show_caret_details' = S.show_caret_details
    /\ UNCHANGED <<editor_ptr, res>>

\* The context after a handler that ran to its end.
Becomes(S) == Handled(S) /\ pc' = pc

\* Lines 272-273: the clipboard string goes to skb_editor_paste_utf8 with
\* length -1 (a nul-terminated string) unchecked.  glfwGetClipboardString
\* returns NULL when the clipboard holds no text; what reading a string at
\* NULL does is undefined: the paste inserts nothing, or the program stops.
KeyOutcomes(key, action, mods, clip) ==
    IF /\ action \in {"PRESS", "REPEAT"}
       /\ key = "V" /\ "CONTROL" \in mods
       /\ ~clip.avail
    THEN {"run", "crashed"}
    ELSE {"run"}

\* LOAD_FONT_OR_FAIL is used for this many fonts.
NumFonts == 11

ResNone == [ctx_mem |-> "none", font_collection |-> "none",
            temp_alloc |-> "none", editor |-> "none", fonts |-> 0,
            ret |-> "none", caller |-> "testbed_create"]

ResCreated == [ctx_mem |-> "live", font_collection |-> "live",
               temp_alloc |-> "live", editor |-> "live", fonts |-> NumFonts,
               ret |-> "ctx", caller |-> "main"]

Init ==
    /\ pc = "run"
    /\ allow_char = FALSE
    /\ drag_view = FALSE
    /\ drag_text = FALSE
    /\ view = ViewInit
    /\ editor_ptr = "valid"
    /\ ed = EdInit
    /\ ime = [handler |-> TRUE, composing |-> FALSE,
              rect |-> InputRect(ViewInit, EdInit)]
    /\ last = "create"
    /\ nchar = 0
    /\ calls = <<<<"ime_set_handler", "ime_handler">>,
                 <<"ime_set_input_rect", InputRect(ViewInit, EdInit)>>>>
    /\ nevents = 0
    /\ show_caret_details = TRUE
    /\ frame_pc = "idle"
    /\ left_text_offset = 0
    /\ line_n = 0
    /\ boundary = NoBoundary
    /\ markers = <<>>
    /\ res = ResCreated

OnKey(key, action, mods, clip) ==
    /\ pc = "run"
    /\ frame_pc = "idle"
    /\ UNCHANGED frameVars
    /\ Handled(testbed_on_key(Cur, key, action, mods, clip))
    /\ pc' \in KeyOutcomes(key, action, mods, clip)
    /\ last' = CASE action = "PRESS" -> "key_press"
                  [] action = "REPEAT" -> "key_repeat"
                  [] OTHER -> "key_up"
    /\ nchar' = 0

OnChar(codepoint) ==
    /\ pc = "run"
    /\ frame_pc = "idle"
    /\ UNCHANGED frameVars
    /\ Becomes(testbed_on_char(Cur, codepoint))
    /\ last' = "char"
    /\ nchar' = IF last \in {"key_press", "key_repeat"} THEN 1
                ELSE IF last = "char" /\ nchar > 0 THEN 2 ELSE 0

OnMouseButton(p, button, action, mods) ==
    /\ pc = "run"
    /\ frame_pc = "idle"
    /\ UNCHANGED frameVars
    /\ Becomes(testbed_on_mouse_button(Cur, R(p[1]), R(p[2]), button, action, mods))
    /\ last' = "mouse_button"
    /\ nchar' = 0

OnMouseMove(p) ==
    /\ pc = "run"
    /\ frame_pc = "idle"
    /\ UNCHANGED frameVars
    /\ Becomes(testbed_on_mouse_move(Cur, R(p[1]), R(p[2])))
    /\ last' = "mouse_move"
    /\ nchar' = 0

\* The model stops short of a zero scale, where the float division of the
\* zoom and of transform_mouse_pos yields infinities.
OnMouseScroll(p, delta_x, delta_y, mods) ==
    /\ pc = "run"
    /\ frame_pc = "idle"
    /\ UNCHANGED frameVars
    /\ RAdd(view.scale, RMul(R(delta_y), ZoomSpeed)) # R(0)
    /\ Becomes(testbed_on_mouse_scroll(Cur, R(p[1]), R(p[2]), R(delta_x),
                                       R(delta_y), mods))
    /\ last' = "mouse_scroll"
    /\ nchar' = 0

\* The IME service delivers an event to the registered handler.
OnIme(ev) ==
    /\ pc = "run"
    /\ frame_pc = "idle"
    /\ UNCHANGED frameVars
    /\ ime.handler
    /\ Becomes(ime_handler(
           [Cur EXCEPT !.ime.composing = (ev.type = "COMPOSITION")], ev))
    /\ last' = "ime"
    /\ nchar' = 0

\* What a release does to a resource: a handle never acquired is passed as
\* NULL and stays as it is.
Release(r) ==
    CASE r = "live" -> "released"
      [] r = "released" -> "released_twice"
      [] OTHER -> r

\* The handle of a resource, as a call receives it.
Handle(r) == IF r = "none" THEN "NULL" ELSE r

\* testbed_destroy, lines 245-249: the editor, the fonts and the temp
\* allocator are destroyed and the context is zeroed.  It runs at shutdown
\* and from the error label of testbed_create.
DestroyResources ==
    /\ pc \in {"run", "create_error"}
    /\ pc' = "destroy_ime_cancel"
    /\ editor_ptr' = "NULL"
    /\ ed' = EdNone
    /\ allow_char' = FALSE
    /\ drag_view' = FALSE
    /\ drag_text' = FALSE
    /\ view' = ViewZero
    /\ show_caret_details' = FALSE
    /\ res' = [res EXCEPT !.editor = Release(@),
                          !.font_collection = Release(@),
                          !.temp_alloc = Release(@)]
    /\ calls' = (IF pc = "create_error" THEN calls ELSE <<>>)
                 \o <<<<"skb_editor_destroy", editor_ptr>>,
                      <<"skb_font_collection_destroy", Handle(res.font_collection)>>,
                      <<"skb_temp_alloc_destroy", Handle(res.temp_alloc)>>,
                      <<"memset">>>>
    /\ last' = "destroy"
    /\ nchar' = 0
    /\ nevents' = 0
    /\ UNCHANGED <<ime, frameVars>>

\* testbed_destroy, line 251: ime_cancel().  A composition in flight makes
\* the service call the registered handler, whose context now holds a NULL
\* editor: the handler passes it to the editor, which is undefined.
DestroyImeCancel ==
    /\ pc = "destroy_ime_cancel"
    /\ ime' = [ime EXCEPT !.composing = FALSE]
    /\ IF ime.composing /\ ime.handler
       THEN /\ calls' = calls \o <<<<"ime_cancel">>,
                                   <<"ime_handler", "CANCEL", editor_ptr>>>>
            /\ pc' \in {"crashed", "destroy_unregister"}
       ELSE /\ calls' = Append(calls, <<"ime_cancel">>)
            /\ pc' = "destroy_unregister"
    /\ UNCHANGED <<allow_char, drag_view, drag_text, view, editor_ptr, ed,
                   last, nchar, nevents, show_caret_details, res, frameVars>>

\* testbed_destroy, line 252: ime_set_handler(NULL, NULL).
DestroyUnregister ==
    /\ pc = "destroy_unregister"
    /\ pc' = "destroy_free"
    /\ ime' = [ime EXCEPT !.handler = FALSE]
    /\ calls' = Append(calls, <<"ime_set_handler", "NULL">>)
    /\ UNCHANGED <<allow_char, drag_view, drag_text, view, editor_ptr, ed,
                   last, nchar, nevents, show_caret_details, res, frameVars>>

DestroyFree_no_free ==
    /\ pc = "destroy_free"
    /\ pc' = IF res.caller = "testbed_create" THEN "create_return_null"
             ELSE "freed"
    /\ UNCHANGED <<allow_char, drag_view, drag_text, view, editor_ptr, ed, ime,
                   last, nchar, calls, nevents, show_caret_details, res,
                   frameVars>>

\* testbed_destroy, line 254: skb_free(ctx), and the return to the caller.
DestroyFree ==
    /\ pc = "destroy_free"
    /\ pc' = IF res.caller = "testbed_create" THEN "create_return_null"
             ELSE "freed"
    /\ res' = [res EXCEPT !.ctx_mem = Release(@)]
    /\ calls' = Append(calls, <<"skb_free", Handle(res.ctx_mem)>>)
    /\ UNCHANGED <<allow_char, drag_view, drag_text, view, editor_ptr, ed, ime,
                   last, nchar, nevents, show_caret_details, frameVars>>

Next ==
    \/ \E key \in Keys, action \in KeyActions, mods \in Mods :
          \E clip \in IF key = "V" /\ "CONTROL" \in mods /\ action # "RELEASE"
                      THEN ClipboardReads
                      ELSE {[avail |-> FALSE, text |-> <<>>]} :
             OnKey(key, action, mods, clip)
    \/ \E codepoint \in {97} : OnChar(codepoint)
    \/ \E p \in MousePoints, button \in MouseButtons, action \in MouseActions,
          mods \in Mods : OnMouseButton(p, button, action, mods)
    \/ \E p \in MousePoints : OnMouseMove(p)
    \/ \E p \in MousePoints, delta_x \in {0, 1}, delta_y \in WheelDeltas,
          mods \in {{}, {"SHIFT", "CONTROL"}} :
             OnMouseScroll(p, delta_x, delta_y, mods)
    \/ \E ev \in ImeEvents : OnIme(ev)
    \/ DestroyResources
    \/ DestroyImeCancel
    \/ DestroyUnregister
    \/ DestroyFree

Spec == Init /\ [][Next]_vars

\* The frames of a running testbed, with the F8 key that shows and hides
\* the caret details.
NextFrame ==
    \/ \E action \in KeyActions, mods \in Mods :
          OnKey("F8", action, mods, [avail |-> FALSE, text |-> <<>>])
    \/ FrameBeginLine
    \/ \E b \in Boundaries : FrameNextBoundary(b)
    \/ FrameEndLine

SpecFrame == Init /\ [][NextFrame]_vars

-----------------------------------------------------------------------------
(* testbed_create, step by step, with the fonts that may fail to load. *)

ctxVars == <<allow_char, drag_view, drag_text, view, editor_ptr, ed, ime,
             show_caret_details>>

InitCreate ==
    /\ pc = "create_begin"
    /\ allow_char = FALSE
    /\ drag_view = FALSE
    /\ drag_text = FALSE
    /\ view = ViewZero
    /\ editor_ptr = "NULL"
    /\ ed = EdNone
    /\ ime = [handler |-> FALSE, composing |-> FALSE, rect |-> <<0, 0, 0, 0>>]
    /\ last = "create"
    /\ nchar = 0
    /\ calls = <<>>
    /\ nevents = 0
    /\ show_caret_details = FALSE
    /\ frame_pc = "idle"
    /\ left_text_offset = 0
    /\ line_n = 0
    /\ boundary = NoBoundary
    /\ markers = <<>>
    /\ res = ResNone

CreateAlloc_registers_handler ==
    /\ pc = "create_begin"
    /\ pc' = "create_font_collection"
    /\ res' = [res EXCEPT !.ctx_mem = "live"]
    /\ show_caret_details' = TRUE
    /\ ime' = [ime EXCEPT !.handler = TRUE]
    /\ calls' = calls \o <<<<"skb_malloc">>, <<"memset">>,
                            <<"render_reset_atlas">>,
                            <<"ime_set_handler", "ime_handler">>>>
    /\ UNCHANGED <<allow_char, drag_view, drag_text, view, editor_ptr, ed,
                   last, nchar, nevents, frameVars>>

\* Lines 93-111: the context is allocated, zeroed and its flags are set.
CreateAlloc ==
    /\ pc = "create_begin"
    /\ pc' = "create_font_collection"
    /\ res' = [res EXCEPT !.ctx_mem = "live"]
    /\ show_caret_details' = TRUE
    /\ calls' = calls \o <<<<"skb_malloc">>, <<"memset">>,
                            <<"render_reset_atlas">>>>
    /\ UNCHANGED <<allow_char, drag_view, drag_text, view, editor_ptr, ed, ime,
                   last, nchar, nevents, frameVars>>

\* Lines 113-114.
CreateFontCollection ==
    /\ pc = "create_font_collection"
    /\ pc' = "create_fonts"
    /\ res' = [res EXCEPT !.font_collection = "live"]
    /\ calls' = Append(calls, <<"skb_font_collection_create">>)
    /\ UNCHANGED <<ctxVars, last, nchar, nevents, frameVars>>

\* Lines 116-126, one LOAD_FONT_OR_FAIL: the font loads, or the failure is
\* logged and control goes to the error label.
CreateLoadFont(ok) ==
    /\ pc = "create_fonts"
    /\ res.fonts < NumFonts
    /\ IF ok
       THEN /\ res' = [res EXCEPT !.fonts = @ + 1]
            /\ pc' = IF res.fonts + 1 = NumFonts THEN "create_temp_alloc"
                     ELSE "create_fonts"
            /\ calls' = Append(calls, <<"skb_font_collection_add_font",
                                        res.fonts + 1, TRUE>>)
       ELSE /\ res' = res
            /\ pc' = "create_error"
            /\ calls' = calls \o <<<<"skb_font_collection_add_font",
                                     res.fonts + 1, FALSE>>,
                                   <<"skb_debug_log", res.fonts + 1>>>>
    /\ UNCHANGED <<ctxVars, last, nchar, nevents, frameVars>>

\* Lines 190-191.
CreateTempAlloc ==
    /\ pc = "create_temp_alloc"
    /\ pc' = "create_editor"
    /\ res' = [res EXCEPT !.temp_alloc = "live"]
    /\ calls' = Append(calls, <<"skb_temp_alloc_create">>)
    /\ UNCHANGED <<ctxVars, last, nchar, nevents, frameVars>>

\* Lines 223-227: the editor with its text, and the view.
CreateEditor ==
    /\ pc = "create_editor"
    /\ pc' = "create_ime"
    /\ res' = [res EXCEPT !.editor = "live"]
    /\ editor_ptr' = "valid"
    /\ ed' = EdInit
    /\ view' = ViewInit
    /\ calls' = calls \o <<<<"skb_editor_create">>,
                            <<"skb_editor_set_text_utf8">>>>
    /\ UNCHANGED <<allow_char, drag_view, drag_text, ime, show_caret_details,
                   last, nchar, nevents, frameVars>>

\* Lines 229-233: the handler is registered, the rect published and the
\* context returned.
CreateIme ==
    /\ pc = "create_ime"
    /\ pc' = "run"
    /\ ime' = [ime EXCEPT !.handler = TRUE, !.rect = InputRect(view, ed)]
    /\ calls' = <<<<"ime_set_handler", "ime_handler">>,
                  <<"ime_set_input_rect", InputRect(view, ed)>>>>
    /\ res' = [res EXCEPT !.ret = "ctx", !.caller = "main"]
    /\ UNCHANGED <<allow_char, drag_view, drag_text, view, editor_ptr, ed,
                   show_caret_details, last, nchar, nevents, frameVars>>

\* Line 237: return NULL, after the testbed_destroy of line 236.
CreateReturnNull ==
    /\ pc = "create_return_null"
    /\ pc' = "failed"
    /\ res' = [res EXCEPT !.ret = "NULL", !.caller = "main"]
    /\ UNCHANGED <<ctxVars, last, nchar, calls, nevents, frameVars>>

NextCreate ==
    \/ CreateAlloc
    \/ CreateFontCollection
    \/ \E ok \in BOOLEAN : CreateLoadFont(ok)
    \/ CreateTempAlloc
    \/ CreateEditor
    \/ CreateIme
    \/ CreateReturnNull
    \/ \E ev \in ImeEvents : OnIme(ev)
    \/ DestroyResources
    \/ DestroyImeCancel
    \/ DestroyUnregister
    \/ DestroyFree

SpecCreate == InitCreate /\ [][NextCreate]_vars

-----------------------------------------------------------------------------
(* Reading the call log. *)

KeyDown(l) == l \in {"key_press", "key_repeat"}
HasCall(cs, name) == \E i \in 1..Len(cs) : cs[i][1] = name
\* The place of the first call of that name.
CallIndex(cs, name) == CHOOSE i \in 1..Len(cs) : cs[i][1] = name
NumCalls(cs, name) == Cardinality({i \in 1..Len(cs) : cs[i][1] = name})

-----------------------------------------------------------------------------
(* C1: at most one of ViewPan (drag_view) and TextSelect (drag_text) is     *)
(* active in every reachable state, and a right press during TextSelect or *)
(* a left press during ViewPan changes no drag state, records no pan       *)
(* anchor, cancels no composition and issues no click.                     *)
C1_DragMutualExclusion ==
    [][/\ ~(drag_view' /\ drag_text')
       /\ \A p \in MousePoints, mods \in Mods :
            /\ (drag_text /\ OnMouseButton(p, "RIGHT", "PRESS", mods))
                 => /\ drag_view' = drag_view
                    /\ drag_text' = drag_text
                    /\ ~HasCall(calls', "view_drag_start")
            /\ (drag_view /\ OnMouseButton(p, "LEFT", "PRESS", mods))
                 => /\ drag_view' = drag_view
                    /\ drag_text' = drag_text
                    /\ ~HasCall(calls', "ime_cancel")
                    /\ ~HasCall(calls', "skb_editor_process_mouse_click")]_vars

(* C2: the character event that directly follows a key-down which          *)
(* dispatched paste (CONTROL+V), select-all (CONTROL+A) or cut (CONTROL+X) *)
(* is dropped: no insert-codepoint command reaches the editor.             *)
C2_ShortcutSuppressesNextChar ==
    [][(/\ KeyDown(last)
        /\ \/ HasCall(calls, "skb_editor_paste_utf8")
           \/ HasCall(calls, "skb_editor_select_all")
           \/ HasCall(calls, "skb_editor_cut")
        /\ last' = "char")
       => ~HasCall(calls', "skb_editor_insert_codepoint")]_vars

(* C3: after every input handler has returned, the rect published last     *)
(* is the rect of the current view and of the caret at selection.end.      *)
C3_InputRectFresh == pc = "run" => ime.rect = InputRect(view, ed)

(* C4: while the IME handler is registered, or a composition is in flight, *)
(* the editor of the handler's context has not been destroyed.             *)
C4_TeardownOrder ==
    editor_ptr # "valid" => (~ime.handler /\ ~ime.composing)

(* C5: every IME event is routed to exactly one editor composition         *)
(* operation (COMPOSITION: set composition with text and cursor; COMMIT:   *)
(* commit composition with text; CANCEL: clear composition), followed by   *)
(* exactly one publish of center + visualCaret.position * scale.           *)
C5_RoutedOp(ev) ==
    CASE ev.type = "COMPOSITION" ->
           <<"skb_editor_set_composition_utf32", ev.text, ev.cursor>>
      [] ev.type = "COMMIT" -> <<"skb_editor_commit_composition_utf32", ev.text>>
      [] ev.type = "CANCEL" -> <<"skb_editor_clear_composition">>

C5_CenterPlusCaret(v, e) ==
    LET c == skb_editor_get_visual_caret(e, e.sel_end)
    IN  <<ToInt32(RAdd(v.cx, RMul(c.x, v.scale))),
          ToInt32(RAdd(v.cy, RMul(c.y, v.scale))),
          ToInt32(RMul(c.width, v.scale)),
          ToInt32(RMul(c.height, v.scale))>>

C5_ImeEventRouting ==
    [][last' = "ime" => \A ev \in ImeEvents :
          OnIme(ev) =>
             /\ calls' = <<C5_RoutedOp(ev),
                           <<"ime_set_input_rect", C5_CenterPlusCaret(view', ed')>>>>
             /\ ime'.rect = C5_CenterPlusCaret(view', ed')]_vars

C5_Witness ==
    /\ last = "ime"
    /\ HasCall(calls, "skb_editor_commit_composition_utf32")
    /\ Len(ed.text) = Len(InitialText) + 1
    /\ NumCalls(calls, "ime_set_input_rect") = 1

(* C6, as stated: a key-down that dispatched a caret-moving command made   *)
(* exactly one InputRect publish.                                           *)
C6_OnePublishPerCaretKey ==
    (KeyDown(last) /\ HasCall(calls, "skb_editor_process_key_pressed"))
       => NumCalls(calls, "ime_set_input_rect") = 1

(* C6, amended: a caret-moving key-down dispatches its command once and    *)
(* publishes the InputRect once on REPEAT and twice on PRESS, each publish *)
(* carrying the rect of the caret after the command.                       *)
C6_PublishesPerCaretKey ==
    (KeyDown(last) /\ HasCall(calls, "skb_editor_process_key_pressed")) =>
       /\ last = "key_repeat" => NumCalls(calls, "ime_set_input_rect") = 1
       /\ last = "key_press" => NumCalls(calls, "ime_set_input_rect") = 2
       /\ NumCalls(calls, "skb_editor_process_key_pressed") = 1
       /\ \A i \in 1..Len(calls) :
             calls[i][1] = "ime_set_input_rect" => calls[i][2] = InputRect(view, ed)

C6_Witness ==
    /\ last = "key_press"
    /\ HasCall(calls, "skb_editor_process_key_pressed")
    /\ NumCalls(calls, "ime_set_input_rect") = 2
    /\ ed.sel_end # EdInit.sel_end

(* C7, as stated: after a key-down that left allow_char false, the first   *)
(* of two consecutive character events is dropped and the second is        *)
(* forwarded to the editor.                                                *)
C7_SecondCharForwarded ==
    [][/\ (KeyDown(last) /\ ~allow_char /\ last' = "char")
            => ~HasCall(calls', "skb_editor_insert_codepoint")
       /\ (/\ last = "char" /\ nchar = 1
           /\ ~HasCall(calls, "skb_editor_insert_codepoint")
           /\ last' = "char")
            => HasCall(calls', "skb_editor_insert_codepoint")]_vars

(* C7, amended: a character event never changes allow_char; while it is    *)
(* false every character event is dropped, the second of two consecutive   *)
(* ones as well, until a later key-down leaves allow_char true.            *)
C7_SuppressedUntilNextKeyDown ==
    [][last' = "char" =>
          /\ allow_char' = allow_char
          /\ ~allow_char => (calls' = <<>> /\ ed' = ed)
          /\ allow_char => HasCall(calls', "skb_editor_insert_codepoint")]_vars

C7_Witness ==
    /\ last = "char"
    /\ nchar = 2
    /\ ~allow_char
    /\ calls = <<>>

(* C8: a key-down that dispatched undo, redo or paste leaves allow_char    *)
(* false when testbed_on_key returns.                                      *)
C8_UndoRedoPasteClearAllowChar ==
    (/\ KeyDown(last)
     /\ \/ HasCall(calls, "skb_editor_undo")
        \/ HasCall(calls, "skb_editor_redo")
        \/ HasCall(calls, "skb_editor_paste_utf8"))
       => ~allow_char

(* C9: the caret-detail pass draws at most two markers for a boundary:     *)
(* exactly one when left.direction = right.direction, exactly two when     *)
(* the directions differ.                                                  *)
C9_MarkersPerBoundary ==
    line_n > 0 =>
       /\ Len(markers) <= 2
       /\ boundary.left.direction = boundary.right.direction => Len(markers) = 1
       /\ boundary.left.direction # boundary.right.direction => Len(markers) = 2

C9_Witness ==
    /\ line_n = 2
    /\ boundary.left.direction # boundary.right.direction
    /\ Len(markers) = 2
    /\ markers[1].side = "left"
    /\ markers[2].side = "right"

(* C10: a wheel-scroll zoom at screen point p leaves the text-space point  *)
(* under p, (p - center)/scale, unchanged (scale and scale + d nonzero).   *)
C10_ZoomInvariance ==
    [][last' = "mouse_scroll" =>
       \A p \in MousePoints, delta_x \in {0, 1}, delta_y \in WheelDeltas,
          mods \in Mods :
          OnMouseScroll(p, delta_x, delta_y, mods) =>
             /\ view'.scale = RAdd(view.scale, RMul(R(delta_y), ZoomSpeed))
             /\ transform_mouse_pos(view', R(p[1]), R(p[2]))
                  = transform_mouse_pos(view, R(p[1]), R(p[2]))]_vars

C10_Witness ==
    /\ last = "mouse_scroll"
    /\ nevents = 2
    /\ view.scale \notin {R(0), R(1)}
    /\ view.cx # ViewInit.cx
    /\ view.cy # ViewInit.cy

(* C11: for every view with scale # 0 and every screen point p, mapping p  *)
(* to text space with transform_mouse_pos and back with center + t * scale *)
(* (the mapping of update_ime_rect) returns p.                             *)
C11_Points == MousePoints \cup {<<0, 0>>, <<-7, 1000>>}

C11_ViewRoundTrip ==
    view.scale # R(0) =>
       \A p \in C11_Points :
          view_to_screen(view, transform_mouse_pos(view, R(p[1]), R(p[2])))
             = [x |-> R(p[1]), y |-> R(p[2])]

C11_Witness ==
    /\ last = "mouse_button"
    /\ view.scale \notin {R(0), R(1)}
    /\ view.cx # ViewInit.cx
    /\ \E i \in 1..Len(calls) :
          /\ calls[i][1] = "skb_editor_process_mouse_click"
          /\ calls[i][2][2] # 1
          /\ view_to_screen(view, [x |-> calls[i][2], y |-> calls[i][3]])
                = [x |-> R(446), y |-> R(150)]

(* C12: a wheel scroll with vertical delta dy changes the scale from s to  *)
(* exactly s + dy/5, below zero too (no clamp); the horizontal delta and   *)
(* the modifier bits change nothing of the outcome.                        *)
C12_ScrollScale ==
    (pc = "run" /\ view.scale # R(0)) =>
       \A p \in MousePoints, delta_y \in WheelDeltas :
          LET S == testbed_on_mouse_scroll(Cur, R(p[1]), R(p[2]), R(0),
                                           R(delta_y), {})
          IN  /\ S.view.scale = RAdd(view.scale, RNorm(delta_y, 5))
              /\ \A delta_x \in {0, 1}, mods \in Mods :
                    testbed_on_mouse_scroll(Cur, R(p[1]), R(p[2]), R(delta_x),
                                            R(delta_y), mods) = S

C12_Witness ==
    /\ last = "mouse_scroll"
    /\ nevents = 2
    /\ view.scale = <<-7, 5>>
    /\ calls[1][4] = <<-6, 5>>

(* C13: every CONTROL+X and CONTROL+C key press acquires exactly one       *)
(* temporary buffer of selection length + 1 bytes, writes the terminating  *)
(* zero at an index inside it and releases it exactly once before the      *)
(* handler returns, a zero-length selection included.                      *)
C13_ScopedClipboardBuffer ==
    pc = "run" =>
       \A key \in {"X", "C"}, mods \in {{"CONTROL"}, {"SHIFT", "CONTROL"}} :
          LET cs == testbed_on_key(Cur, key, "PRESS", mods,
                                   [avail |-> FALSE, text |-> <<>>]).calls
              len == skb_editor_get_selection_count(ed)
          IN  /\ NumCalls(cs, "SKB_TEMP_ALLOC") = 1
              /\ NumCalls(cs, "store_nul") = 1
              /\ NumCalls(cs, "SKB_TEMP_FREE") = 1
              /\ cs[CallIndex(cs, "SKB_TEMP_ALLOC")][2] = len + 1
              /\ cs[CallIndex(cs, "store_nul")][2] \in 0..len
              /\ CallIndex(cs, "SKB_TEMP_ALLOC") < CallIndex(cs, "store_nul")
              /\ CallIndex(cs, "store_nul") < CallIndex(cs, "SKB_TEMP_FREE")

C13_Witness ==
    /\ last = "key_press"
    /\ HasCall(calls, "skb_editor_cut")
    /\ calls[CallIndex(calls, "SKB_TEMP_ALLOC")][2] = 2
    /\ NumCalls(calls, "SKB_TEMP_FREE") = 1
    /\ ed.text = <<>>

(* C14: when a font fails to load, testbed_create loads nothing more and   *)
(* creates neither the temp allocator nor the editor; it runs testbed_     *)
(* destroy and returns NULL.  The font collection and the context memory   *)
(* are then released exactly once, and the editor and the temp allocator,  *)
(* never acquired, are only passed as NULL to their destroy calls.         *)
C14_CallNames(cs) == [i \in 1..Len(cs) |-> cs[i][1]]

C14_FailedAt == calls[CallIndex(calls, "skb_debug_log")][2]

C14_StartupFailure ==
    /\ HasCall(calls, "skb_debug_log") =>
          /\ pc \in {"create_error", "destroy_ime_cancel", "destroy_unregister",
                      "destroy_free", "create_return_null", "failed"}
          /\ NumCalls(calls, "skb_font_collection_add_font") = C14_FailedAt
          /\ res.fonts = C14_FailedAt - 1
          /\ ~HasCall(calls, "skb_temp_alloc_create")
          /\ ~HasCall(calls, "skb_editor_create")
          /\ ~ime.handler
          /\ res.ret # "ctx"
    /\ pc = "failed" =>
          /\ HasCall(calls, "skb_debug_log")
          /\ res.ret = "NULL"
          /\ res.ctx_mem = "released"
          /\ res.font_collection = "released"
          /\ res.editor = "none"
          /\ res.temp_alloc = "none"
          /\ SubSeq(calls, Len(calls) - 6, Len(calls))
               = <<<<"skb_editor_destroy", "NULL">>,
                   <<"skb_font_collection_destroy", "live">>,
                   <<"skb_temp_alloc_destroy", "NULL">>,
                   <<"memset">>,
                   <<"ime_cancel">>,
                   <<"ime_set_handler", "NULL">>,
                   <<"skb_free", "live">>>>
          /\ \A i \in 1..(Len(calls) - 7) :
                calls[i][1] \in {"skb_malloc", "memset", "render_reset_atlas",
                                 "skb_font_collection_create",
                                 "skb_font_collection_add_font", "skb_debug_log"}

C14_Witness ==
    /\ pc = "failed"
    /\ res.ret = "NULL"
    /\ res.fonts = 3
    /\ res.font_collection = "released"
    /\ res.ctx_mem = "released"

(* C15: CONTROL+V with an empty or unavailable clipboard text, and         *)
(* CONTROL+X and CONTROL+C with a zero-length selection, never stop the    *)
(* program: the key handler runs to its end and leaves the document text   *)
(* unchanged.                                                              *)
C15_RanToEnd(S, action) ==
    /\ S.calls # <<>>
    /\ S.calls[Len(S.calls)][1] = "ime_set_input_rect"
    /\ NumCalls(S.calls, "ime_set_input_rect")
         = IF action = "PRESS" THEN 2 ELSE 1

C16_LeftPressProtocol ==
    pc = "run" =>
       \A p \in MousePoints, mods \in Mods :
          LET S == testbed_on_mouse_button(Cur, R(p[1]), R(p[2]), "LEFT",
                                           "PRESS", mods)
              pos == transform_mouse_pos(view, R(p[1]), R(p[2]))
              click == <<"skb_editor_process_mouse_click", pos.x, pos.y>>
          IN  IF ~drag_text
              THEN /\ S.calls[1] = <<"ime_cancel">>
                   /\ NumCalls(S.calls, "ime_cancel") = 1
                   /\ ~S.ime.composing
                   /\ S.ed.comp = <<>>
                   /\ ime.composing =>
                         S.calls[2] = <<"skb_editor_clear_composition">>
                   /\ NumCalls(S.calls, "skb_editor_process_mouse_click") = 1
                   /\ S.calls[Len(S.calls) - 1] = click
                   /\ S.drag_text
              ELSE /\ ~HasCall(S.calls, "ime_cancel")
                   /\ ~HasCall(S.calls, "skb_editor_process_mouse_click")
                   /\ S.drag_text
                   /\ S.ed = ed

C16_Witness ==
    /\ last = "mouse_button"
    /\ drag_text
    /\ calls[1] = <<"ime_cancel">>
    /\ calls[2] = <<"skb_editor_clear_composition">>
    /\ calls[4][1] = "skb_editor_process_mouse_click"
    /\ ~ime.composing
    /\ ed.sel_end = 1

(* C17, as stated: at a direction-change boundary the left label is        *)
(* offset if and only if the advance of that same boundary is below 40.    *)
C17_OffsetFromOwnAdvance ==
    (line_n > 0 /\ boundary.left.direction # boundary.right.direction) =>
       (markers[1].label_dy # 0 <=> boundary.advance < LabelOverlapAdvance)

(* C17, amended: at a direction-change boundary the left label is offset   *)
(* by 15 if and only if the boundary is not the first of its line and the  *)
(* boundary before it drew a right label (a direction change, or           *)
(* right.affinity TRAILING) and had an advance below 40; otherwise the     *)
(* label has no offset.  The boundary's own advance decides the offset of  *)
(* the boundary after it only.                                             *)
C17_DrewRightLabel(b) ==
    b.left.direction # b.right.direction \/ b.right.affinity = "TRAILING"

C17_OffsetFromPreviousAdvance ==
    [][(/\ line_n' = line_n + 1
        /\ boundary'.left.direction # boundary'.right.direction)
       => /\ markers'[1].side = "left"
          /\ markers'[1].label_dy
               = IF /\ line_n > 0
                    /\ C17_DrewRightLabel(boundary)
                    /\ boundary.advance < LabelOverlapAdvance
                 THEN LabelOverlapOffset ELSE 0
          /\ markers'[2].label_dy = 0]_vars

C17_Witness ==
    /\ line_n = 2
    /\ boundary.left.direction # boundary.right.direction
    /\ boundary.advance = 40
    /\ markers[1].side = "left"
    /\ markers[1].label_dy = 15

(* C18: at a single-direction boundary with right.affinity TRAILING the    *)
(* one marker points along right.direction and is labelled with right's    *)
(* affinity and offset, and the offset carried on is 15 when the advance   *)
(* is below 40 and 0 otherwise; with any other affinity the one marker     *)
(* points along left.direction, is labelled with left's affinity and       *)
(* offset, and the carried offset is reset to 0.                           *)
C18_Along(direction) == IF direction = "RTL" THEN -5 ELSE 5

C18_SingleDirectionMarker ==
    (line_n > 0 /\ boundary.left.direction = boundary.right.direction) =>
       /\ Len(markers) = 1
       /\ IF boundary.right.affinity = "TRAILING"
          THEN /\ markers[1].side = "right"
               /\ markers[1].tri_dx = C18_Along(boundary.right.direction)
               /\ markers[1].affinity = boundary.right.affinity
               /\ markers[1].offset = boundary.right.offset
               /\ left_text_offset = IF boundary.advance < 40 THEN 15 ELSE 0
          ELSE /\ markers[1].side = "left"
               /\ markers[1].tri_dx = C18_Along(boundary.left.direction)
               /\ markers[1].affinity = boundary.left.affinity
               /\ markers[1].offset = boundary.left.offset
               /\ left_text_offset = 0

C18_Witness ==
    /\ line_n = 2
    /\ boundary.left.direction = "RTL"
    /\ boundary.right.direction = "RTL"
    /\ boundary.right.affinity = "EOL"
    /\ boundary.advance = 39
    /\ markers[1].side = "left"
    /\ markers[1].label_dy = 15
    /\ left_text_offset = 0

(* C19: a key PRESS or REPEAT that dispatched no shortcut clearing         *)
(* allow_char (paste, select-all, cut, copy) returns with allow_char true  *)
(* whatever it was before; a key RELEASE never changes allow_char.         *)
C19_ClearingShortcut(cs) ==
    \/ HasCall(cs, "skb_editor_paste_utf8")
    \/ HasCall(cs, "skb_editor_select_all")
    \/ HasCall(cs, "glfwSetClipboardString")

C19_AllowCharRearmed ==
    [][/\ (KeyDown(last') /\ ~C19_ClearingShortcut(calls')) => allow_char'
       /\ last' = "key_up" => (allow_char' = allow_char /\ calls' = <<>>)]_vars

C19_Witness ==
    /\ last = "key_up"
    /\ nevents = 3
    /\ ~allow_char
    /\ calls = <<>>
    /\ skb_editor_get_selection_count(ed) > 0

(* C20: a CONTROL+X key press sets the clipboard to the selection text as  *)
(* it was before the deletion, then issues exactly one cut command to the  *)
(* editor, and returns with allow_char false.                              *)
C20_CutOrdering ==
    pc = "run" =>
       \A mods \in {{"CONTROL"}, {"SHIFT", "CONTROL"}} :
          LET S == testbed_on_key(Cur, "X", "PRESS", mods,
                                  [avail |-> FALSE, text |-> <<>>])
              cs == S.calls
          IN  /\ NumCalls(cs, "glfwSetClipboardString") = 1
              /\ cs[CallIndex(cs, "glfwSetClipboardString")]
                   = <<"glfwSetClipboardString", skb_editor_get_selection_text(ed)>>
              /\ NumCalls(cs, "skb_editor_cut") = 1
              /\ CallIndex(cs, "glfwSetClipboardString")
                   < CallIndex(cs, "skb_editor_cut")
              /\ S.ed = skb_editor_cut(ed)
              /\ ~S.allow_char

C20_Witness ==
    /\ last = "key_press"
    /\ HasCall(calls, "skb_editor_cut")
    /\ HasCall(calls, "glfwSetClipboardString")
    /\ calls[CallIndex(calls, "glfwSetClipboardString")][2] = InitialText
    /\ ed.text = <<>>
    /\ ~allow_char

(* C21: a CONTROL+C key press sets the clipboard to the current selection  *)
(* text and issues no editor command; text, selection and composition are  *)
(* unchanged, and its only effects are the clipboard write, allow_char     *)
(* false and the republished InputRect.                                    *)
C21_CopyFrame ==
    pc = "run" =>
       \A mods \in {{"CONTROL"}, {"SHIFT", "CONTROL"}} :
          LET S == testbed_on_key(Cur, "C", "PRESS", mods,
                                  [avail |-> FALSE, text |-> <<>>])
          IN  /\ NumCalls(S.calls, "glfwSetClipboardString") = 1
              /\ S.calls[CallIndex(S.calls, "glfwSetClipboardString")][2]
                   = skb_editor_get_selection_text(ed)
              /\ \A i \in 1..Len(S.calls) :
                    S.calls[i][1] \in {"SKB_TEMP_ALLOC", "store_nul",
                                       "glfwSetClipboardString", "SKB_TEMP_FREE",
                                       "ime_set_input_rect"}
              /\ S = [Cur EXCEPT !.allow_char = FALSE,
                                 !.ime.rect = InputRect(view, ed),
                                 !.calls = S.calls]

C21_Witness ==
    /\ last = "key_press"
    /\ HasCall(calls, "glfwSetClipboardString")
    /\ ~HasCall(calls, "skb_editor_cut")
    /\ calls[CallIndex(calls, "glfwSetClipboardString")][2] = InitialText
    /\ ed.text = InitialText
    /\ skb_editor_get_selection_count(ed) = 1
    /\ ~allow_char

(* C22: an Escape key press with a selection of at least one character     *)
(* clears the selection and requests no close; with no selection it        *)
(* requests a close and leaves the selection as it is.  Exactly one of     *)
(* the two happens.                                                        *)
C22_EscapeClearsOrCloses ==
    pc = "run" =>
       \A mods \in Mods :
          LET S == testbed_on_key(Cur, "ESCAPE", "PRESS", mods,
                                  [avail |-> FALSE, text |-> <<>>])
              cleared == NumCalls(S.calls, "skb_editor_select_none")
              closed == NumCalls(S.calls, "glfwSetWindowShouldClose")
          IN  IF skb_editor_get_selection_count(ed) > 0
              THEN /\ cleared = 1 /\ closed = 0
                   /\ skb_editor_get_selection_count(S.ed) = 0
                   /\ S.ed.text = ed.text
              ELSE /\ cleared = 0 /\ closed = 1
                   /\ S.ed = ed

C22_Witness ==
    /\ last = "key_press"
    /\ nevents = 2
    /\ HasCall(calls, "skb_editor_select_none")
    /\ ~HasCall(calls, "glfwSetWindowShouldClose")
    /\ skb_editor_get_selection_count(ed) = 0
    /\ ed.sel_end = 1

(* C23: a key-down (PRESS or REPEAT) of Z with CONTROL issues exactly one  *)
(* of undo and redo: undo without SHIFT, redo with SHIFT; Z without        *)
(* CONTROL issues neither.                                                 *)
C23_UndoRedoDispatch ==
    pc = "run" =>
       \A action \in {"PRESS", "REPEAT"}, mods \in Mods :
          LET cs == testbed_on_key(Cur, "Z", action, mods,
                                   [avail |-> FALSE, text |-> <<>>]).calls
              undo == NumCalls(cs, "skb_editor_undo")
              redo == NumCalls(cs, "skb_editor_redo")
          IN  /\ "CONTROL" \in mods => undo + redo = 1
              /\ ("CONTROL" \in mods /\ "SHIFT" \notin mods) => undo = 1
              /\ ("CONTROL" \in mods /\ "SHIFT" \in mods) => redo = 1
              /\ "CONTROL" \notin mods => undo + redo = 0

C23_Witness ==
    /\ last = "key_repeat"
    /\ nevents = 2
    /\ HasCall(calls, "skb_editor_redo")
    /\ ~HasCall(calls, "skb_editor_undo")

(* C24: select-all, tab insertion, escape, cut and copy are dispatched on  *)
(* PRESS and never on REPEAT; paste, undo, redo and the movement and edit  *)
(* keys are dispatched on PRESS and on REPEAT alike; a RELEASE makes no    *)
(* editor command, no clipboard access and no InputRect publish.           *)
(* The dispatch is computed in every context that takes a further event.   *)
C24_PressOnlyCalls ==
    {"skb_editor_select_all", "skb_editor_insert_codepoint",
     "skb_editor_select_none", "glfwSetWindowShouldClose", "skb_editor_cut",
     "glfwSetClipboardString"}

C24_RepeatableCalls ==
    {"skb_editor_paste_utf8", "skb_editor_undo", "skb_editor_redo",
     "skb_editor_process_key_pressed"}

C24_Dispatched(cs, names) ==
    Cardinality({i \in 1..Len(cs) : cs[i][1] \in names})

C24_Calls(key, action, mods) ==
    testbed_on_key(Cur, key, action, mods, [avail |-> TRUE, text |-> <<>>]).calls

C24_PressAndRepeatDispatch ==
    /\ last = "key_up" => calls = <<>>
    /\ last = "key_repeat" => C24_Dispatched(calls, C24_PressOnlyCalls) = 0
    /\ (pc = "run" /\ nevents < MaxEvents) =>
         /\ \A key \in {"A", "X", "C", "TAB", "ESCAPE"} :
               /\ C24_Dispatched(C24_Calls(key, "PRESS", {"CONTROL"}),
                                 C24_PressOnlyCalls) >= 1
               /\ C24_Calls(key, "REPEAT", {"CONTROL"})
                    = <<<<"ime_set_input_rect", InputRect(view, ed)>>>>
         /\ \A key \in CaretKeys \cup {"V", "Z"} :
               /\ C24_Dispatched(C24_Calls(key, "PRESS", {"CONTROL"}),
                                 C24_RepeatableCalls) = 1
               /\ C24_Dispatched(C24_Calls(key, "REPEAT", {"CONTROL"}),
                                 C24_RepeatableCalls) = 1

C24_Witness ==
    /\ last = "key_repeat"
    /\ nevents = 2
    /\ calls = <<<<"ime_set_input_rect", InputRect(view, ed)>>>>
    /\ skb_editor_get_selection_count(ed) = 1
    /\ allow_char

(* C25: a mouse move updates the pan if and only if ViewPan is active,     *)
(* issues a drag command with the text-space mapping of the point if and   *)
(* only if TextSelect is active, and publishes the InputRect after each    *)
(* such update; with no drag active it changes neither the view nor the    *)
(* editor and publishes nothing.                                           *)
C25_MouseMoveRouting ==
    [][last' = "mouse_move" =>
       \A p \in MousePoints :
          OnMouseMove(p) =>
             LET pos == transform_mouse_pos(view', R(p[1]), R(p[2]))
                 pan == IF drag_view
                        THEN <<<<"view_drag_move", R(p[1]), R(p[2])>>,
                               <<"ime_set_input_rect", InputRect(view', ed)>>>>
                        ELSE <<>>
                 sel == IF drag_text
                        THEN <<<<"skb_editor_process_mouse_drag", pos.x, pos.y>>,
                               <<"ime_set_input_rect", InputRect(view', ed')>>>>
                        ELSE <<>>
             IN  /\ calls' = pan \o sel
                 /\ ~drag_view => view' = view
                 /\ ~drag_text => ed' = ed
                 /\ (~drag_view /\ ~drag_text) => ime' = ime
                 /\ drag_view' = drag_view /\ drag_text' = drag_text]_vars

C25_Witness ==
    /\ last = "mouse_move"
    /\ drag_text
    /\ ~drag_view
    /\ calls[1][1] = "skb_editor_process_mouse_drag"
    /\ calls[2] = <<"ime_set_input_rect", InputRect(view, ed)>>
    /\ skb_editor_get_selection_count(ed) = 1

(* C26: among the input events, ViewPan becomes active only on a right-    *)
(* button press and ends only on a right-button release, and TextSelect    *)
(* becomes active only on a left-button press and ends only on a left-     *)
(* button release; so the release of a button whose drag is not active     *)
(* changes no drag state and never ends the other button's drag.           *)
C26_DragLifecycle ==
    /\ []((pc = "run" /\ nevents < MaxEvents) =>
            \A p \in MousePoints, button \in MouseButtons,
               action \in MouseActions, mods \in Mods :
               LET S == testbed_on_mouse_button(Cur, R(p[1]), R(p[2]), button,
                                                action, mods)
               IN  /\ S.drag_view # drag_view
                         => /\ button = "RIGHT"
                            /\ S.drag_view = (action = "PRESS")
                   /\ S.drag_text # drag_text
                         => /\ button = "LEFT"
                            /\ S.drag_text = (action = "PRESS"))
    /\ [][last' \notin {"mouse_button", "destroy"}
            => (drag_view' = drag_view /\ drag_text' = drag_text)]_vars

C26_Witness ==
    /\ last = "mouse_button"
    /\ nevents = 3
    /\ drag_text
    /\ ~drag_view
    /\ calls = <<<<"ime_set_input_rect", InputRect(view, ed)>>>>
    /\ view.drag_x # ViewInit.drag_x

(* C27: testbed_create registers the IME handler once, on the success path *)
(* only and after the editor has been created and given its text; on the   *)
(* failure path no handler is registered at any point; testbed_destroy     *)
(* returns with no handler registered.                                     *)
C27_HandlerRegistration ==
    [][/\ (~ime.handler /\ ime'.handler) =>
             /\ pc = "create_ime" /\ pc' = "run"
             /\ res.editor = "live" /\ editor_ptr = "valid"
             /\ ed.text = InitialText
             /\ res.fonts = NumFonts
             /\ ~HasCall(calls, "skb_debug_log")
             /\ NumCalls(calls', "ime_set_handler") = 1
       /\ pc' = "run" => ime'.handler
       /\ HasCall(calls', "skb_debug_log") =>
             ~ime'.handler
       /\ pc' \in {"freed", "failed"} => ~ime'.handler]_vars

C27_Witness ==
    /\ pc = "freed"
    /\ res.ret = "ctx"
    /\ ~ime.handler
    /\ HasCall(calls, "ime_set_handler")
    /\ res.editor = "released"

(* C28: allow_char is false in a freshly created instance and becomes true *)
(* only in a key PRESS or REPEAT event, so a character event is forwarded  *)
(* to the editor only when the most recent key-down left allow_char true,  *)
(* and every character event before the first key-down is dropped.         *)
C28_CharGateAtStartup ==
    /\ [](last = "create" => ~allow_char)
    /\ [][/\ (~allow_char /\ allow_char') => KeyDown(last')
          /\ (last' \notin {"key_press", "key_repeat", "destroy"})
                => allow_char' = allow_char
          /\ last' = "char" =>
                /\ HasCall(calls', "skb_editor_insert_codepoint") <=> allow_char
                /\ ~allow_char => (calls' = <<>> /\ ed' = ed)]_vars

C28_Witness ==
    /\ last = "char"
    /\ nevents = 2
    /\ nchar = 0
    /\ ~allow_char
    /\ calls = <<>>
    /\ ed = EdInit

(* C29: a PRESS of a printable key that is no shortcut makes testbed_on_key *)
(* publish the input rect and issue no editor command, and the character    *)
(* event that follows makes testbed_on_char issue one insert-codepoint      *)
(* command: the character is inserted once.                                 *)
(* The pair is computed in every context that takes a further event.        *)
C29_PrintableKeys == {"V", "Z", "A", "X", "C", "B"}

C29_NoDoubleInsertion ==
    (pc = "run" /\ nevents < MaxEvents) =>
       \A key \in C29_PrintableKeys, mods \in Mods :
          ~("CONTROL" \in mods /\ key # "B") =>
             LET K == testbed_on_key(Cur, key, "PRESS", mods,
                                     [avail |-> FALSE, text |-> <<>>])
                 C == testbed_on_char([K EXCEPT !.calls = <<>>], 97)
             IN  /\ \A i \in 1..Len(K.calls) :
                       K.calls[i][1] = "ime_set_input_rect"
                 /\ K.ed = ed
                 /\ C.calls = <<<<"skb_editor_insert_codepoint", 97>>>>
                 /\ C.ed = skb_editor_insert_codepoint(ed, 97)

C29_Witness ==
    /\ last = "char"
    /\ nchar = 1
    /\ nevents = 2
    /\ calls = <<<<"skb_editor_insert_codepoint", 97>>>>
    /\ ed = skb_editor_insert_codepoint(EdInit, 97)

(* C30: a wheel-scroll event hands the view to view_scroll_zoom and does   *)
(* nothing else: drag_view, drag_text, allow_char, the editor, the         *)
(* published input rect and the handler registration keep their values and *)
(* no editor command is issued, with or without a drag in progress.        *)
C30_ScrollFrame ==
    [][last' = "mouse_scroll" =>
          /\ drag_view' = drag_view
          /\ drag_text' = drag_text
          /\ allow_char' = allow_char
          /\ ed' = ed
          /\ ime' = ime
          /\ editor_ptr' = editor_ptr
          /\ show_caret_details' = show_caret_details
          /\ res' = res
          /\ pc' = pc
          /\ Len(calls') = 1
          /\ calls'[1][1] = "view_scroll_zoom"]_vars

C30_Witness ==
    /\ last = "mouse_scroll"
    /\ drag_view
    /\ allow_char
    /\ view.scale # ViewInit.scale
    /\ Len(calls) = 1

====
